---- MODULE Spec2Model ----
(***************************************************************************)
(* Model of lib/llvm-backend/src/intrinsics.rs: the intrinsic declaration  *)
(* table (Intrinsics::declare), the per-function execution-context         *)
(* accessor (CtxType) with its five memoization caches, and the            *)
(* instructions the accessor appends through the IR builder.               *)
(*                                                                         *)
(* An emitted instruction is a record; the value it defines is identified  *)
(* by its position in `emitted` (value 0 is the function's first           *)
(* parameter, the context pointer).  Beside the compile-time state the     *)
(* model carries the runtime descriptors `rt` and, in `val`, the runtime   *)
(* value every emitted instruction yields when the straight-line code is   *)
(* executed in emission order, so that a growth event between two accesses *)
(* can be observed through the operands the accessor returns.              *)
(***************************************************************************)
EXTENDS Integers, Sequences, FiniteSets, TLC

\* Number of entities (local + imported) of one kind in a generated module,
\* and the number of signature / imported-function indices a driver queries.
NumEntities == 2
\* Number of driver steps (accessor calls, traps, growth events) explored.
MaxSteps == 3

VARIABLES
    pc,                         \* "start" | "declared" | "ctx"
    module_fns,                 \* functions registered in the compilation unit
    intrinsics,                 \* handle table returned by declare
    info,                       \* ModuleInfo (read-only metadata)
    ctx_ptr_value,              \* CtxType.ctx_ptr_value
    emitted,                    \* instructions appended through the builder
    cached_memories,
    cached_tables,
    cached_sigindices,
    cached_globals,
    cached_imported_functions,
    rt,                         \* runtime memory / table descriptors
    val,                        \* runtime value of each emitted instruction
    last,                       \* the last driver step and what it returned
    steps,
    calls,                      \* accessor calls made on this accessor so far
    builder,                    \* insertion marks <<program point, block>>
    other                       \* the accessor of the other function in flight

vars == <<pc, module_fns, intrinsics, info, ctx_ptr_value, emitted,
          cached_memories, cached_tables, cached_sigindices, cached_globals,
          cached_imported_functions, rt, val, last, steps, calls, builder,
          other>>

caches == <<cached_memories, cached_tables, cached_sigindices, cached_globals,
            cached_imported_functions>>

-----------------------------------------------------------------------------
(* Intrinsic declaration table *)

\* Function types built in declare; ctx is the context pointer type.
FnType(sig) ==
    CASE sig = "ret_i32_take_i32_i1"      -> [ret |-> "i32", params |-> <<"i32", "i1">>]
      [] sig = "ret_i64_take_i64_i1"      -> [ret |-> "i64", params |-> <<"i64", "i1">>]
      [] sig = "ret_i32_take_i32"         -> [ret |-> "i32", params |-> <<"i32">>]
      [] sig = "ret_i64_take_i64"         -> [ret |-> "i64", params |-> <<"i64">>]
      [] sig = "ret_f32_take_f32"         -> [ret |-> "f32", params |-> <<"f32">>]
      [] sig = "ret_f64_take_f64"         -> [ret |-> "f64", params |-> <<"f64">>]
      [] sig = "ret_f32_take_f32_f32"     -> [ret |-> "f32", params |-> <<"f32", "f32">>]
      [] sig = "ret_f64_take_f64_f64"     -> [ret |-> "f64", params |-> <<"f64", "f64">>]
      [] sig = "ret_i32_take_ctx_i32_i32" -> [ret |-> "i32", params |-> <<"ctx_ptr", "i32", "i32">>]
      [] sig = "ret_i32_take_ctx_i32"     -> [ret |-> "i32", params |-> <<"ctx_ptr", "i32">>]
      [] sig = "ret_i1_take_i1_i1"        -> [ret |-> "i1", params |-> <<"i1", "i1">>]
      [] sig = "void_take_none"           -> [ret |-> "void", params |-> <<>>]

\* One row per module.add_function call of declare, in source order:
\* <<handle field, symbol name split at the dots, function type>>.
DeclaredFunctions ==
    << <<"ctlz_i32",      <<"llvm", "ctlz", "i32">>,      "ret_i32_take_i32_i1">>,
       <<"ctlz_i64",      <<"llvm", "ctlz", "i64">>,      "ret_i64_take_i64_i1">>,
       <<"cttz_i32",      <<"llvm", "cttz", "i32">>,      "ret_i32_take_i32_i1">>,
       <<"cttz_i64",      <<"llvm", "cttz", "i64">>,      "ret_i64_take_i64_i1">>,
       <<"ctpop_i32",     <<"llvm", "ctpop", "i32">>,     "ret_i32_take_i32">>,
       <<"ctpop_i64",     <<"llvm", "ctpop", "i64">>,     "ret_i64_take_i64">>,
       <<"sqrt_f32",      <<"llvm", "sqrt", "f32">>,      "ret_f32_take_f32">>,
       <<"sqrt_f64",      <<"llvm", "sqrt", "f64">>,      "ret_f64_take_f64">>,
       <<"minimum_f32",   <<"llvm", "minnum", "f32">>,    "ret_f32_take_f32_f32">>,
       <<"minimum_f64",   <<"llvm", "minnum", "f64">>,    "ret_f64_take_f64_f64">>,
       <<"maximum_f32",   <<"llvm", "maxnum", "f32">>,    "ret_f32_take_f32_f32">>,
       <<"maximum_f64",   <<"llvm", "maxnum", "f64">>,    "ret_f64_take_f64_f64">>,
       <<"ceil_f32",      <<"llvm", "ceil", "f32">>,      "ret_f32_take_f32">>,
       <<"ceil_f64",      <<"llvm", "ceil", "f64">>,      "ret_f64_take_f64">>,
       <<"floor_f32",     <<"llvm", "floor", "f32">>,     "ret_f32_take_f32">>,
       <<"floor_f64",     <<"llvm", "floor", "f64">>,     "ret_f64_take_f64">>,
       <<"trunc_f32",     <<"llvm", "trunc", "f32">>,     "ret_f32_take_f32">>,
       <<"trunc_f64",     <<"llvm", "trunc", "f64">>,     "ret_f64_take_f64">>,
       <<"nearbyint_f32", <<"llvm", "nearbyint", "f32">>, "ret_f32_take_f32">>,
       <<"nearbyint_f64", <<"llvm", "nearbyint", "f64">>, "ret_f64_take_f64">>,
       <<"fabs_f32",      <<"llvm", "fabs", "f32">>,      "ret_f32_take_f32">>,
       <<"fabs_f64",      <<"llvm", "fabs", "f64">>,      "ret_f64_take_f64">>,
       <<"copysign_f32",  <<"llvm", "copysign", "f32">>,  "ret_f32_take_f32_f32">>,
       <<"copysign_f64",  <<"llvm", "copysign", "f64">>,  "ret_f64_take_f64_f64">>,
       <<"expect_i1",     <<"llvm", "expect", "i1">>,     "ret_i1_take_i1_i1">>,
       <<"trap",          <<"llvm", "trap">>,             "void_take_none">>,
       <<"memory_grow_dynamic_local",  <<"vm", "memory", "grow", "dynamic", "local">>,  "ret_i32_take_ctx_i32_i32">>,
       <<"memory_grow_static_local",   <<"vm", "memory", "grow", "static", "local">>,   "ret_i32_take_ctx_i32_i32">>,
       <<"memory_grow_shared_local",   <<"vm", "memory", "grow", "shared", "local">>,   "ret_i32_take_ctx_i32_i32">>,
       <<"memory_grow_dynamic_import", <<"vm", "memory", "grow", "dynamic", "import">>, "ret_i32_take_ctx_i32_i32">>,
       <<"memory_grow_static_import",  <<"vm", "memory", "grow", "static", "import">>,  "ret_i32_take_ctx_i32_i32">>,
       <<"memory_grow_shared_import",  <<"vm", "memory", "grow", "shared", "import">>,  "ret_i32_take_ctx_i32_i32">>,
       <<"memory_size_dynamic_local",  <<"vm", "memory", "size", "dynamic", "local">>,  "ret_i32_take_ctx_i32">>,
       <<"memory_size_static_local",   <<"vm", "memory", "size", "static", "local">>,   "ret_i32_take_ctx_i32">>,
       <<"memory_size_shared_local",   <<"vm", "memory", "size", "shared", "local">>,   "ret_i32_take_ctx_i32">>,
       <<"memory_size_dynamic_import", <<"vm", "memory", "size", "dynamic", "import">>, "ret_i32_take_ctx_i32">>,
       <<"memory_size_static_import",  <<"vm", "memory", "size", "static", "import">>,  "ret_i32_take_ctx_i32">>,
       <<"memory_size_shared_import",  <<"vm", "memory", "size", "shared", "import">>,  "ret_i32_take_ctx_i32">> >>

\* add_function that loses the declaration of the trap.
add_function_without_trap(fns, name, sig) ==
    IF name = <<"llvm", "trap">> THEN fns
    ELSE Append(fns, [name |-> name, ty |-> FnType(sig)])

\* The "shared" entry points registered under the "static" names.
add_function_shared_as_static(fns, name, sig) ==
    Append(fns, [name |-> [k \in DOMAIN name |->
                              IF name[k] = "shared" THEN "static" ELSE name[k]],
                 ty |-> FnType(sig)])

\* module.add_function(name, ty, None): the unit gains one function symbol.
\* No check is made for a symbol of the same name: the unit's symbol table
\* renames the newcomer by a numeric suffix.
add_function(fns, name, sig) ==
    LET taken == \E k \in 1..Len(fns) : fns[k].name = name
    IN Append(fns, [name |-> IF taken THEN Append(name, "1") ELSE name,
                    ty |-> FnType(sig)])

RECURSIVE AddAll(_, _)
AddAll(fns, rows) ==
    IF rows = <<>> THEN fns
    ELSE AddAll(add_function(fns, Head(rows)[2], Head(rows)[3]), Tail(rows))

\* The handle table: each handle field is bound to the symbol it registered.
Handles(rows) ==
    [f \in {rows[k][1] : k \in 1..Len(rows)} |->
        (CHOOSE k \in 1..Len(rows) : rows[k][1] = f)]

\* Intrinsics::declare: registers every row into the unit, returns the handles
\* (a handle is the position of the function in the unit).
declare ==
    /\ pc = "start"
    /\ module_fns' = AddAll(module_fns, DeclaredFunctions)
    /\ intrinsics' = [f \in DOMAIN Handles(DeclaredFunctions) |->
                        Len(module_fns) + Handles(DeclaredFunctions)[f]]
    /\ pc' = "declared"
    /\ last' = [op |-> "declare", index |-> 0, ret |-> <<>>, from |-> Len(emitted), hit |-> FALSE]
    /\ UNCHANGED <<builder, calls, other, info, ctx_ptr_value, emitted, caches, rt, val, steps>>

\* Intrinsics::declare called once more on the unit that holds the symbols
\* of the first call: the same registrations run again and a second handle
\* table is returned.
redeclare ==
    /\ pc = "declared"
    /\ Len(module_fns) = Len(DeclaredFunctions)
    /\ module_fns' = AddAll(module_fns, DeclaredFunctions)
    /\ intrinsics' = [f \in DOMAIN Handles(DeclaredFunctions) |->
                        Len(module_fns) + Handles(DeclaredFunctions)[f]]
    /\ last' = [op |-> "declare", index |-> 1, ret |-> <<>>, from |-> Len(emitted), hit |-> FALSE]
    /\ UNCHANGED <<pc, builder, calls, other, info, ctx_ptr_value, emitted, caches, rt,
                   val, steps>>

-----------------------------------------------------------------------------
(* Module metadata *)

MemoryType == {"Dynamic", "Static", "SharedStatic"}
Type == {"I32", "I64", "F32", "F64"}
GlobalDesc == [mutable : BOOLEAN, ty : Type]

\* Every split of NumEntities entities of one kind into imported and local
\* ones, each described by an element of S.
Layouts(S) ==
    UNION {[imported : [1..k -> S], local : [1..(NumEntities - k) -> S]] :
             k \in 0..NumEntities}

DefaultMemories == [imported |-> <<"Static">>, local |-> <<"Dynamic">>]
DefaultTables == [imported |-> <<"Anyfunc">>, local |-> <<"Anyfunc">>]
DefaultGlobals ==
    [imported |-> <<[mutable |-> FALSE, ty |-> "I32"]>>,
     local |-> <<[mutable |-> TRUE, ty |-> "I64"]>>]

ModuleInfo(m, t, g) ==
    [imported_memories |-> m.imported, memories |-> m.local,
     imported_tables |-> t.imported, tables |-> t.local,
     imported_globals |-> g.imported, globals |-> g.local]

\* index.local_or_import(info): imported entities come first in the unified
\* index space, local ones follow.
local_or_import(index, num_imports) ==
    IF index < num_imports
    THEN [tag |-> "Import", index |-> index]
    ELSE [tag |-> "Local", index |-> index - num_imports]

MemoryIndices(i) == 0..(Len(i.imported_memories) + Len(i.memories) - 1)
TableIndices(i) == 0..(Len(i.imported_tables) + Len(i.tables) - 1)
GlobalIndices(i) == 0..(Len(i.imported_globals) + Len(i.globals) - 1)
SigIndices == 0..(NumEntities - 1)
ImportedFuncIndices == 0..(NumEntities - 1)

-----------------------------------------------------------------------------
(* Emitted instructions *)

Instr(op, arg, n, ty, name) ==
    [op |-> op, arg |-> arg, n |-> n, ty |-> ty, name |-> name]

build_struct_gep(ptr, field, name) == Instr("struct_gep", ptr, field, "", name)
build_load(ptr, name) == Instr("load", ptr, 0, "", name)
build_in_bounds_gep(ptr, const_index, name) == Instr("gep", ptr, const_index, "", name)
build_ptr_to_int(ptr, name) == Instr("ptr_to_int", ptr, 0, "i64", name)
build_int_to_ptr(int, ty, name) == Instr("int_to_ptr", int, 0, ty, name)
build_call(fn, name) == Instr("call", fn, 0, "", name)

-----------------------------------------------------------------------------
(* Runtime: the execution context the emitted code reads through *)

\* Context fields (0-based struct indices) holding arrays of pointers to
\* memory / table descriptors.
DescriptorFields == {0, 1, 3, 4}

CtxPointer == <<"ctx", 0, 0, 0>>

ValOf(id, vals) == IF id = 0 THEN CtxPointer ELSE vals[id]

\* What one instruction yields at run time, given the values of the earlier
\* instructions and the current descriptors.
Eval(ins, vals, descs) ==
    LET p == ValOf(ins.arg, vals) IN
    CASE ins.op = "struct_gep" /\ p[1] = "ctx"   -> <<"ctx_field", ins.n, 0, 0>>
      [] ins.op = "struct_gep" /\ p[1] = "desc"  -> <<"desc_field", p[2], p[3], ins.n>>
      [] ins.op = "gep"                          -> <<"slot", p[2], ins.n, 0>>
      [] ins.op = "load" /\ p[1] = "ctx_field"   -> <<"array", p[2], 0, 0>>
      [] ins.op = "load" /\ p[1] = "slot"        ->
            IF p[2] = 7 THEN <<"sigid", 7, p[3], 0>> ELSE <<"desc", p[2], p[3], 0>>
      [] ins.op = "load" /\ p[1] = "desc_field"  ->
            IF p[2] \in DescriptorFields /\ <<p[2], p[3]>> \notin DOMAIN descs
            THEN \* a read past the end of the array: no descriptor lies there
                 <<"undef", p[2], p[3], 0>>
            ELSE IF p[2] \in DescriptorFields
            THEN IF p[4] = 0
                 THEN <<"base", p[2], p[3], descs[<<p[2], p[3]>>].base>>
                 ELSE <<"bounds", p[2], p[3], descs[<<p[2], p[3]>>].bounds>>
            ELSE IF p[4] = 0
                 THEN <<"func_ptr", p[2], p[3], 0>>
                 ELSE <<"callee_ctx", p[2], p[3], 0>>
      [] ins.op = "load" /\ p[1] = "cell"        -> <<"global_value", p[2], p[3], 0>>
      [] ins.op = "ptr_to_int"                   -> <<"int", p[2], p[3], 0>>
      [] ins.op = "int_to_ptr"                   -> <<"cell", p[2], p[3], 0>>
      [] ins.op = "call"                         -> <<"void", 0, 0, 0>>
      [] OTHER                                   -> <<"undef", 0, 0, 0>>

RECURSIVE Run(_, _, _)
Run(code, vals, descs) ==
    IF code = <<>> THEN vals
    ELSE Run(Tail(code), Append(vals, Eval(Head(code), vals, descs)), descs)

\* One descriptor per memory and table of the module: base 0, bound 1.
InitialDescriptors(i) ==
    LET keys == ({0} \X (0..(Len(i.memories) - 1)))
                \cup ({3} \X (0..(Len(i.imported_memories) - 1)))
                \cup ({1} \X (0..(Len(i.tables) - 1)))
                \cup ({4} \X (0..(Len(i.imported_tables) - 1)))
    IN [k \in keys |-> [base |-> 0, bounds |-> 1, grown_at |-> 0]]

\* Whether growth may move the storage behind descriptor <<field, index>>:
\* a relocatable (Dynamic) memory, or a table.
Relocatable(i, field, index) ==
    CASE field = 0 -> i.memories[index + 1] = "Dynamic"
      [] field = 3 -> i.imported_memories[index + 1] = "Dynamic"
      [] OTHER -> TRUE

-----------------------------------------------------------------------------
(* Execution-context accessor *)

EmptyCache == <<>>

\* insert instead of or_insert_with: the closure runs on every call and its
\* result replaces the entry.
insert_always(cache, key, derived) ==
    [cache |-> [k \in DOMAIN cache \cup {key} |->
                   IF k = key THEN derived.entry ELSE cache[k]],
     code |-> derived.code, entry |-> derived.entry]

\* A cache of one entry: a miss drops what was cached before.
insert_evicting(cache, key, derived) ==
    IF key \in DOMAIN cache
    THEN [cache |-> cache, code |-> <<>>, entry |-> cache[key]]
    ELSE [cache |-> (key :> derived.entry),
          code |-> derived.code, entry |-> derived.entry]

\* cache.entry(key).or_insert_with(closure): on a hit the closure does not
\* run and the entry stays; on a miss the closure's code is emitted and its
\* result stored under the key.
or_insert_with(cache, key, derived) ==
    IF key \in DOMAIN cache
    THEN [cache |-> cache, code |-> <<>>, entry |-> cache[key]]
    ELSE [cache |-> cache @@ (key :> derived.entry),
          code |-> derived.code, entry |-> derived.entry]

\* The local memory array whatever the locality.
memory_array_field_local_only(loi) == 0

\* Context field holding the memory array for a resolved index.
memory_array_field(loi) == IF loi.tag = "Local" THEN 0 ELSE 3

memory_type_of(i, loi) ==
    IF loi.tag = "Local" THEN i.memories[loi.index + 1]
    ELSE i.imported_memories[loi.index + 1]

\* Variants of memory_cache_for that ignore the memory type.
memory_cache_for_all_static(memory_type, ptr_to_base_ptr, ptr_to_bounds, n) ==
    [code |-> <<build_load(ptr_to_base_ptr, "base"),
                build_load(ptr_to_bounds, "bounds")>>,
     entry |-> [kind |-> "Static", base_ptr |-> n + 1, bounds |-> n + 2]]

memory_cache_for_all_dynamic(memory_type, ptr_to_base_ptr, ptr_to_bounds, n) ==
    [code |-> <<>>,
     entry |-> [kind |-> "Dynamic", ptr_to_base_ptr |-> ptr_to_base_ptr,
                ptr_to_bounds |-> ptr_to_bounds]]

\* Only Static takes the loaded-value variant: SharedStatic falls to the
\* field-pointer variant.
memory_cache_for_shared_as_dynamic(memory_type, ptr_to_base_ptr, ptr_to_bounds, n) ==
    IF memory_type = "Static"
    THEN [code |-> <<build_load(ptr_to_base_ptr, "base"),
                     build_load(ptr_to_bounds, "bounds")>>,
          entry |-> [kind |-> "Static", base_ptr |-> n + 1, bounds |-> n + 2]]
    ELSE [code |-> <<>>,
          entry |-> [kind |-> "Dynamic", ptr_to_base_ptr |-> ptr_to_base_ptr,
                     ptr_to_bounds |-> ptr_to_bounds]]

\* The cache variant chosen for a memory type; n is the number of
\* instructions emitted before the match, ptr_to_base_ptr / ptr_to_bounds the
\* two field pointers.
memory_cache_for(memory_type, ptr_to_base_ptr, ptr_to_bounds, n) ==
    IF memory_type = "Dynamic"
    THEN [code |-> <<>>,
          entry |-> [kind |-> "Dynamic", ptr_to_base_ptr |-> ptr_to_base_ptr,
                     ptr_to_bounds |-> ptr_to_bounds]]
    ELSE [code |-> <<build_load(ptr_to_base_ptr, "base"),
                     build_load(ptr_to_bounds, "bounds")>>,
          entry |-> [kind |-> "Static", base_ptr |-> n + 1, bounds |-> n + 2]]

\* Whether info's map of local entities has an element at a resolved index
\* (an index below the number of imports always resolves to an import).
in_range(loi, locals) == loi.tag = "Import" \/ loi.index < Len(locals)

\* The closure of memory(): n instructions were emitted before it runs.
\* `panics` tells that info.memories was indexed out of range, which happens
\* after the first address computation was emitted.
memory_closure(i, ctxv, index, n) ==
    LET loi == local_or_import(index, Len(i.imported_memories))
        derive == <<build_struct_gep(ctxv, memory_array_field(loi), "memory_array_ptr_ptr"),
                    build_load(n + 1, "memory_array_ptr"),
                    build_in_bounds_gep(n + 2, loi.index, "memory_ptr_ptr"),
                    build_load(n + 3, "memory_ptr"),
                    build_struct_gep(n + 4, 0, "base_ptr"),
                    build_struct_gep(n + 4, 1, "bounds_ptr")>>
        variant == memory_cache_for(memory_type_of(i, loi), n + 5, n + 6, n + 6)
    IN IF in_range(loi, i.memories)
       THEN [code |-> derive \o variant.code, entry |-> variant.entry,
             panics |-> FALSE]
       ELSE [code |-> <<derive[1]>>, entry |-> [kind |-> "none"], panics |-> TRUE]

\* The match on the cache entry that ends memory(): n instructions were
\* emitted before it.
memory_match(entry, n) ==
    IF entry.kind = "Dynamic"
    THEN [code |-> <<build_load(entry.ptr_to_base_ptr, "base"),
                     build_load(entry.ptr_to_bounds, "bounds")>>,
          ret |-> <<n + 1, n + 2>>]
    ELSE [code |-> <<>>, ret |-> <<entry.base_ptr, entry.bounds>>]

Step(op, index, ret, hit) ==
    [op |-> op, index |-> index, ret |-> ret, from |-> Len(emitted), hit |-> hit]

memory(index) ==
    /\ pc = "ctx"
    /\ steps < MaxSteps
    /\ LET n == Len(emitted)
           hit == index \in DOMAIN cached_memories
           derived == memory_closure(info, ctx_ptr_value, index, n)
           got == or_insert_with(cached_memories, index, derived)
           out == memory_match(got.entry, n + Len(got.code))
           code == got.code \o out.code
       IN IF ~hit /\ derived.panics
          THEN \* the closure unwinds: nothing is inserted, nothing returned
               /\ pc' = "panicked"
               /\ cached_memories' = cached_memories
               /\ emitted' = emitted \o got.code
               /\ val' = Run(got.code, val, rt)
               /\ last' = Step("memory", index, <<>>, hit)
          ELSE /\ pc' = pc
               /\ cached_memories' = got.cache
               /\ emitted' = emitted \o code
               /\ val' = Run(code, val, rt)
               /\ last' = Step("memory", index, out.ret, hit)
    /\ steps' = steps + 1
    /\ calls' = Append(calls, <<"memory", index>>)
    /\ UNCHANGED <<builder, other, module_fns, intrinsics, info, ctx_ptr_value, rt,
                   cached_tables, cached_sigindices, cached_globals,
                   cached_imported_functions>>

\* Context field holding the table array for a resolved index.
table_array_field(loi) == IF loi.tag = "Local" THEN 1 ELSE 4

\* The table array indexed by the unified index instead of the sub-index.
table_closure_unified_index(i, ctxv, index, n) ==
    LET loi == local_or_import(index, Len(i.imported_tables))
    IN [code |-> <<build_struct_gep(ctxv, table_array_field(loi), "table_array_ptr_ptr"),
                   build_load(n + 1, "table_array_ptr"),
                   build_in_bounds_gep(n + 2, index, "table_ptr_ptr"),
                   build_load(n + 3, "table_ptr"),
                   build_struct_gep(n + 4, 0, "base_ptr"),
                   build_struct_gep(n + 4, 1, "bounds_ptr")>>,
        entry |-> [ptr_to_base_ptr |-> n + 5, ptr_to_bounds |-> n + 6]]

\* The closure of table(): always a TableCache of the two field pointers.
table_closure(i, ctxv, index, n) ==
    LET loi == local_or_import(index, Len(i.imported_tables))
    IN [code |-> <<build_struct_gep(ctxv, table_array_field(loi), "table_array_ptr_ptr"),
                   build_load(n + 1, "table_array_ptr"),
                   build_in_bounds_gep(n + 2, loi.index, "table_ptr_ptr"),
                   build_load(n + 3, "table_ptr"),
                   build_struct_gep(n + 4, 0, "base_ptr"),
                   build_struct_gep(n + 4, 1, "bounds_ptr")>>,
        entry |-> [ptr_to_base_ptr |-> n + 5, ptr_to_bounds |-> n + 6]]

\* table() that hands out the cached field pointers without loading.
table_loads_skipped(entry, n) ==
    [code |-> <<>>, ret |-> <<entry.ptr_to_base_ptr, entry.ptr_to_bounds>>]

\* The two loads that end every table() call.
table_loads(entry, n) ==
    [code |-> <<build_load(entry.ptr_to_base_ptr, "base_ptr"),
                build_load(entry.ptr_to_bounds, "bounds")>>,
     ret |-> <<n + 1, n + 2>>]

table(index) ==
    /\ pc = "ctx"
    /\ steps < MaxSteps
    /\ LET n == Len(emitted)
           got == or_insert_with(cached_tables, index,
                                 table_closure(info, ctx_ptr_value, index, n))
           out == table_loads(got.entry, n + Len(got.code))
           code == got.code \o out.code
       IN /\ cached_tables' = got.cache
          /\ emitted' = emitted \o code
          /\ val' = Run(code, val, rt)
          /\ last' = Step("table", index, out.ret, index \in DOMAIN cached_tables)
    /\ steps' = steps + 1
    /\ calls' = Append(calls, <<"table", index>>)
    /\ UNCHANGED <<builder, other, pc, module_fns, intrinsics, info, ctx_ptr_value, rt,
                   cached_memories, cached_sigindices, cached_globals,
                   cached_imported_functions>>

\* The identifier array taken one context field too early.
sigindex_closure_field_6(ctxv, index, n) ==
    [code |-> <<build_struct_gep(ctxv, 6, "sigindex_array_ptr_ptr"),
                build_load(n + 1, "sigindex_array_ptr"),
                build_in_bounds_gep(n + 2, index, "sigindex_ptr"),
                build_load(n + 3, "sigindex")>>,
     entry |-> n + 4]

\* The closure of dynamic_sigindex(): the loaded identifier is cached.
sigindex_closure(ctxv, index, n) ==
    [code |-> <<build_struct_gep(ctxv, 7, "sigindex_array_ptr_ptr"),
                build_load(n + 1, "sigindex_array_ptr"),
                build_in_bounds_gep(n + 2, index, "sigindex_ptr"),
                build_load(n + 3, "sigindex")>>,
     entry |-> n + 4]

dynamic_sigindex(index) ==
    /\ pc = "ctx"
    /\ steps < MaxSteps
    /\ LET n == Len(emitted)
           got == or_insert_with(cached_sigindices, index,
                                 sigindex_closure(ctx_ptr_value, index, n))
       IN /\ cached_sigindices' = got.cache
          /\ emitted' = emitted \o got.code
          /\ val' = Run(got.code, val, rt)
          /\ last' = Step("dynamic_sigindex", index, <<got.entry>>,
                          index \in DOMAIN cached_sigindices)
    /\ steps' = steps + 1
    /\ calls' = Append(calls, <<"dynamic_sigindex", index>>)
    /\ UNCHANGED <<builder, other, pc, module_fns, intrinsics, info, ctx_ptr_value, rt,
                   cached_memories, cached_tables, cached_globals,
                   cached_imported_functions>>

\* Every global viewed as a 64-bit slot.
type_to_llvm_ptr_slot(ty) == "i64_ptr"

\* type_to_llvm_ptr: the pointer type used to view a global of a wasm type.
type_to_llvm_ptr(ty) ==
    CASE ty = "I32" -> "i32_ptr"
      [] ty = "I64" -> "i64_ptr"
      [] ty = "F32" -> "f32_ptr"
      [] ty = "F64" -> "f64_ptr"

\* The type of the value a load through a pointer type yields.
Pointee(ptr_ty) ==
    CASE ptr_ty = "i32_ptr" -> "i32"
      [] ptr_ty = "i64_ptr" -> "i64"
      [] ptr_ty = "f32_ptr" -> "f32"
      [] ptr_ty = "f64_ptr" -> "f64"

\* BasicValueEnum::into_int_value succeeds only on an integer value.
into_int_value_ok(value_ty) == value_ty \in {"i32", "i64"}

\* Context field holding the globals array for a resolved index.
globals_array_field(loi) == IF loi.tag = "Local" THEN 2 ELSE 5

global_desc_of(i, loi) ==
    IF loi.tag = "Local" THEN i.globals[loi.index + 1]
    ELSE i.imported_globals[loi.index + 1]

\* A closure that initializes the cell of a mutable global it resolves.
global_closure_initializing(i, ctxv, index, n) ==
    LET loi == local_or_import(index, Len(i.imported_globals))
        desc == global_desc_of(i, loi)
        llvm_ptr_ty == type_to_llvm_ptr(desc.ty)
        derive == <<build_struct_gep(ctxv, globals_array_field(loi), "globals_array_ptr_ptr"),
                    build_load(n + 1, "global_array_ptr"),
                    build_in_bounds_gep(n + 2, loi.index, "global_ptr_ptr"),
                    build_load(n + 3, "global_ptr"),
                    build_ptr_to_int(n + 4, "global_ptr_int"),
                    build_int_to_ptr(n + 5, llvm_ptr_ty, "global_ptr_typed")>>
    IN IF desc.mutable
       THEN [code |-> Append(derive, Instr("store", n + 6, 0, "", "global_init")),
             entry |-> [kind |-> "Mut", ptr_to_value |-> n + 6],
             panics |-> FALSE]
       ELSE [code |-> Append(derive, build_load(n + 6, "global_value")),
             entry |-> [kind |-> "Const", value |-> n + 7],
             panics |-> ~into_int_value_ok(Pointee(llvm_ptr_ty))]

\* The closure of global_cache(); `panics` tells that info.globals was
\* indexed out of range, before anything is emitted, or that into_int_value
\* was reached with a value that is no integer, after the code was emitted.
global_closure(i, ctxv, index, n) ==
    LET loi == local_or_import(index, Len(i.imported_globals))
        desc == global_desc_of(i, loi)
        llvm_ptr_ty == type_to_llvm_ptr(desc.ty)
        derive == <<build_struct_gep(ctxv, globals_array_field(loi), "globals_array_ptr_ptr"),
                    build_load(n + 1, "global_array_ptr"),
                    build_in_bounds_gep(n + 2, loi.index, "global_ptr_ptr"),
                    build_load(n + 3, "global_ptr"),
                    build_ptr_to_int(n + 4, "global_ptr_int"),
                    build_int_to_ptr(n + 5, llvm_ptr_ty, "global_ptr_typed")>>
    IN IF ~in_range(loi, i.globals)
       THEN [code |-> <<>>, entry |-> [kind |-> "none"], panics |-> TRUE]
       ELSE IF desc.mutable
       THEN [code |-> derive,
             entry |-> [kind |-> "Mut", ptr_to_value |-> n + 6],
             panics |-> FALSE]
       ELSE [code |-> Append(derive, build_load(n + 6, "global_value")),
             entry |-> [kind |-> "Const", value |-> n + 7],
             panics |-> ~into_int_value_ok(Pointee(llvm_ptr_ty))]

global_cache(index) ==
    /\ pc = "ctx"
    /\ steps < MaxSteps
    /\ LET n == Len(emitted)
           hit == index \in DOMAIN cached_globals
           derived == global_closure(info, ctx_ptr_value, index, n)
           got == or_insert_with(cached_globals, index, derived)
       IN IF ~hit /\ derived.panics
          THEN \* the closure unwinds: nothing is inserted, nothing returned
               /\ pc' = "panicked"
               /\ cached_globals' = cached_globals
               /\ emitted' = emitted \o got.code
               /\ val' = Run(got.code, val, rt)
               /\ last' = Step("global_cache", index, <<>>, hit)
          ELSE /\ pc' = pc
               /\ cached_globals' = got.cache
               /\ emitted' = emitted \o got.code
               /\ val' = Run(got.code, val, rt)
               /\ last' = Step("global_cache", index, got.entry, hit)
    /\ steps' = steps + 1
    /\ calls' = Append(calls, <<"global_cache", index>>)
    /\ UNCHANGED <<builder, other, module_fns, intrinsics, info, ctx_ptr_value, rt,
                   cached_memories, cached_tables, cached_sigindices,
                   cached_imported_functions>>

\* The caller's own context pointer handed out as the callee's.
imported_func_closure_caller_ctx(ctxv, index, n) ==
    [code |-> <<build_struct_gep(ctxv, 6, "imported_func_array_ptr_ptr"),
                build_load(n + 1, "func_array_ptr"),
                build_in_bounds_gep(n + 2, index, "imported_func_ptr_ptr"),
                build_load(n + 3, "imported_func_ptr"),
                build_struct_gep(n + 4, 0, "func_ptr_ptr"),
                build_load(n + 5, "func_ptr")>>,
     entry |-> [func_ptr |-> n + 6, ctx_ptr |-> ctxv]]

\* The closure of imported_func(): both descriptor fields are loaded and cached.
imported_func_closure(ctxv, index, n) ==
    [code |-> <<build_struct_gep(ctxv, 6, "imported_func_array_ptr_ptr"),
                build_load(n + 1, "func_array_ptr"),
                build_in_bounds_gep(n + 2, index, "imported_func_ptr_ptr"),
                build_load(n + 3, "imported_func_ptr"),
                build_struct_gep(n + 4, 0, "func_ptr_ptr"),
                build_struct_gep(n + 4, 1, "ctx_ptr_ptr"),
                build_load(n + 5, "func_ptr"),
                build_load(n + 6, "ctx_ptr")>>,
     entry |-> [func_ptr |-> n + 7, ctx_ptr |-> n + 8]]

imported_func(index) ==
    /\ pc = "ctx"
    /\ steps < MaxSteps
    /\ LET n == Len(emitted)
           got == or_insert_with(cached_imported_functions, index,
                                 imported_func_closure(ctx_ptr_value, index, n))
       IN /\ cached_imported_functions' = got.cache
          /\ emitted' = emitted \o got.code
          /\ val' = Run(got.code, val, rt)
          /\ last' = Step("imported_func", index,
                          <<got.entry.func_ptr, got.entry.ctx_ptr>>,
                          index \in DOMAIN cached_imported_functions)
    /\ steps' = steps + 1
    /\ calls' = Append(calls, <<"imported_func", index>>)
    /\ UNCHANGED <<builder, other, pc, module_fns, intrinsics, info, ctx_ptr_value, rt,
                   cached_memories, cached_tables, cached_sigindices,
                   cached_globals>>

\* A trap that calls the branch-hint function in place of the trap.
build_trap_calling_expect ==
    /\ pc = "ctx"
    /\ steps < MaxSteps
    /\ LET code == <<build_call(intrinsics["expect_i1"], "trap")>>
       IN /\ emitted' = emitted \o code
          /\ val' = Run(code, val, rt)
    /\ last' = Step("build_trap", 0, <<>>, FALSE)
    /\ steps' = steps + 1
    /\ UNCHANGED <<builder, calls, other, pc, module_fns, intrinsics, info,
                   ctx_ptr_value, rt, caches>>

\* A trap that also forgets what the accessor cached.
build_trap_clearing_caches ==
    /\ pc = "ctx"
    /\ steps < MaxSteps
    /\ LET code == <<build_call(intrinsics["trap"], "trap")>>
       IN /\ emitted' = emitted \o code
          /\ val' = Run(code, val, rt)
    /\ last' = Step("build_trap", 0, <<>>, FALSE)
    /\ steps' = steps + 1
    /\ cached_memories' = EmptyCache
    /\ cached_tables' = EmptyCache
    /\ cached_sigindices' = EmptyCache
    /\ cached_globals' = EmptyCache
    /\ cached_imported_functions' = EmptyCache
    /\ UNCHANGED <<builder, calls, other, pc, module_fns, intrinsics, info,
                   ctx_ptr_value, rt>>

\* build_trap: one call of the declared trap function, no arguments.
build_trap ==
    /\ pc = "ctx"
    /\ steps < MaxSteps
    /\ LET code == <<build_call(intrinsics["trap"], "trap")>>
       IN /\ emitted' = emitted \o code
          /\ val' = Run(code, val, rt)
    /\ last' = Step("build_trap", 0, <<>>, FALSE)
    /\ steps' = steps + 1
    /\ UNCHANGED <<builder, calls, other, pc, module_fns, intrinsics, info, ctx_ptr_value, rt, caches>>

\* basic: the context-pointer operand itself.
basic ==
    /\ pc = "ctx"
    /\ steps < MaxSteps
    /\ last' = Step("basic", 0, <<ctx_ptr_value>>, FALSE)
    /\ steps' = steps + 1
    /\ UNCHANGED <<builder, calls, other, pc, module_fns, intrinsics, info, ctx_ptr_value, emitted,
                   rt, val, caches>>

\* An accessor that takes over the caches of the accessor of the other
\* function when there is one.
ctx_sharing_caches ==
    /\ pc = "declared"
    /\ ctx_ptr_value' = 0
    /\ LET shared == other.pc = "ctx"
       IN /\ cached_memories' = IF shared THEN other.cached_memories ELSE EmptyCache
          /\ cached_tables' = IF shared THEN other.cached_tables ELSE EmptyCache
          /\ cached_sigindices' = IF shared THEN other.cached_sigindices ELSE EmptyCache
          /\ cached_globals' = IF shared THEN other.cached_globals ELSE EmptyCache
          /\ cached_imported_functions' =
                IF shared THEN other.cached_imported_functions ELSE EmptyCache
    /\ pc' = "ctx"
    /\ last' = Step("ctx", 0, <<>>, FALSE)
    /\ calls' = <<>>
    /\ UNCHANGED <<builder, other, module_fns, intrinsics, info, emitted, rt, val, steps>>

\* Intrinsics::ctx: a fresh accessor bound to the function's first parameter.
ctx ==
    /\ pc = "declared"
    /\ ctx_ptr_value' = 0
    /\ cached_memories' = EmptyCache
    /\ cached_tables' = EmptyCache
    /\ cached_sigindices' = EmptyCache
    /\ cached_globals' = EmptyCache
    /\ cached_imported_functions' = EmptyCache
    /\ pc' = "ctx"
    /\ last' = Step("ctx", 0, <<>>, FALSE)
    /\ calls' = <<>>
    /\ UNCHANGED <<builder, other, module_fns, intrinsics, info, emitted, rt, val, steps>>

\* A growth event of the runtime on descriptor <<field, index>>, at the
\* current point of the emitted code: the bound grows; the base may move only
\* when the storage is relocatable.
Grow(field, index) ==
    /\ pc = "ctx"
    /\ steps < MaxSteps
    /\ <<field, index>> \in DOMAIN rt
    /\ \E moved \in BOOLEAN :
          /\ moved => Relocatable(info, field, index)
          /\ rt' = [rt EXCEPT ![<<field, index>>] =
                       [base |-> IF moved THEN @.base + 1 ELSE @.base,
                        bounds |-> @.bounds + 1,
                        grown_at |-> Len(emitted)]]
    /\ last' = Step("grow", index, <<field>>, FALSE)
    /\ steps' = steps + 1
    /\ UNCHANGED <<builder, calls, other, pc, module_fns, intrinsics, info, ctx_ptr_value, emitted,
                   caches, val>>

NoCache == <<"none">>

\* The block the builder is positioned in when the function body starts.
EntryBlock == "entry"

\* The per-function state of a function whose accessor is not built yet.
NoAccessor ==
    [pc |-> "declared", ctx_ptr_value |-> -1, emitted |-> <<>>,
     cached_memories |-> NoCache, cached_tables |-> NoCache,
     cached_sigindices |-> NoCache, cached_globals |-> NoCache,
     cached_imported_functions |-> NoCache, val |-> <<>>,
     last |-> [op |-> "init", index |-> 0, ret |-> <<>>, from |-> 0, hit |-> FALSE],
     calls |-> <<>>, builder |-> <<<<0, EntryBlock>>>>]

InitWith(infos) ==
    /\ pc = "start"
    /\ module_fns = <<>>
    /\ intrinsics = <<>>
    /\ info \in infos
    /\ ctx_ptr_value = -1
    /\ emitted = <<>>
    /\ cached_memories = NoCache
    /\ cached_tables = NoCache
    /\ cached_sigindices = NoCache
    /\ cached_globals = NoCache
    /\ cached_imported_functions = NoCache
    /\ rt = InitialDescriptors(info)
    /\ val = <<>>
    /\ last = [op |-> "init", index |-> 0, ret |-> <<>>, from |-> 0, hit |-> FALSE]
    /\ steps = 0
    /\ calls = <<>>
    /\ builder = <<<<0, EntryBlock>>>>
    /\ other = NoAccessor

\* The basic blocks of a function body with one two-armed conditional.
Blocks == {EntryBlock, "then", "else", "merge"}

\* The blocks every path from the entry to `block` passes through.
Dominators(block) ==
    CASE block = EntryBlock -> {EntryBlock}
      [] block = "then" -> {EntryBlock, "then"}
      [] block = "else" -> {EntryBlock, "else"}
      [] block = "merge" -> {EntryBlock, "merge"}

\* The block instructions are appended to now, and the block that holds
\* instruction k of the emitted code.
CurrentBlock == builder[Len(builder)][2]
BlockOf(k) ==
    LET mark == CHOOSE j \in DOMAIN builder :
                   /\ builder[j][1] < k
                   /\ \A m \in DOMAIN builder : builder[m][1] < k => m <= j
    IN builder[mark][2]

\* builder.position_at_end(block), called by the driver between two accessor
\* calls: what is emitted from now on is appended to `block`.  Two moves in a
\* row leave the builder where the second one puts it, so one move at most
\* is taken between two calls.
position_at_end(block) ==
    /\ pc = "ctx"
    /\ last.op # "position_at_end"
    /\ block # CurrentBlock
    /\ builder' = Append(builder, <<Len(emitted), block>>)
    /\ last' = Step("position_at_end", 0, <<block>>, FALSE)
    /\ UNCHANGED <<pc, module_fns, intrinsics, info, ctx_ptr_value, emitted, caches,
                   rt, val, steps, calls, other>>

\* The driver turns to the other function of the unit: its body, its builder
\* and its accessor (if built) become the current ones.  The unit, the
\* handle table and the metadata are shared.
switch_function ==
    /\ pc \in {"declared", "ctx"}
    /\ pc' = other.pc
    /\ ctx_ptr_value' = other.ctx_ptr_value
    /\ emitted' = other.emitted
    /\ cached_memories' = other.cached_memories
    /\ cached_tables' = other.cached_tables
    /\ cached_sigindices' = other.cached_sigindices
    /\ cached_globals' = other.cached_globals
    /\ cached_imported_functions' = other.cached_imported_functions
    /\ val' = other.val
    /\ last' = other.last
    /\ calls' = other.calls
    /\ builder' = other.builder
    /\ other' = [pc |-> pc, ctx_ptr_value |-> ctx_ptr_value, emitted |-> emitted,
                 cached_memories |-> cached_memories, cached_tables |-> cached_tables,
                 cached_sigindices |-> cached_sigindices,
                 cached_globals |-> cached_globals,
                 cached_imported_functions |-> cached_imported_functions,
                 val |-> val, last |-> last, calls |-> calls, builder |-> builder]
    /\ UNCHANGED <<module_fns, intrinsics, info, rt, steps>>

-----------------------------------------------------------------------------
(* The accessor as a function of its call log *)

\* The compile-time state of an accessor ctx() has just built, in a function
\* body that holds no instruction yet.
FreshAccessor ==
    [emitted |-> <<>>, cached_memories |-> EmptyCache, cached_tables |-> EmptyCache,
     cached_sigindices |-> EmptyCache, cached_globals |-> EmptyCache,
     cached_imported_functions |-> EmptyCache, ret |-> <<>>, panicked |-> FALSE]

\* One accessor call on accessor state acc over metadata i: the instructions
\* appended, the cache after the call and the operands returned.
Serve(i, ctxv, acc, op, index) ==
    LET n == Len(acc.emitted)
        unwound(code) == [acc EXCEPT !.emitted = @ \o code, !.ret = <<>>,
                                     !.panicked = TRUE]
    IN CASE op = "memory" ->
              LET hit == index \in DOMAIN acc.cached_memories
                  derived == memory_closure(i, ctxv, index, n)
                  got == or_insert_with(acc.cached_memories, index, derived)
                  out == memory_match(got.entry, n + Len(got.code))
              IN IF ~hit /\ derived.panics THEN unwound(got.code)
                 ELSE [acc EXCEPT !.emitted = @ \o got.code \o out.code,
                                  !.cached_memories = got.cache, !.ret = out.ret]
         [] op = "table" ->
              LET got == or_insert_with(acc.cached_tables, index,
                                        table_closure(i, ctxv, index, n))
                  out == table_loads(got.entry, n + Len(got.code))
              IN [acc EXCEPT !.emitted = @ \o got.code \o out.code,
                             !.cached_tables = got.cache, !.ret = out.ret]
         [] op = "dynamic_sigindex" ->
              LET got == or_insert_with(acc.cached_sigindices, index,
                                        sigindex_closure(ctxv, index, n))
              IN [acc EXCEPT !.emitted = @ \o got.code,
                             !.cached_sigindices = got.cache, !.ret = <<got.entry>>]
         [] op = "global_cache" ->
              LET hit == index \in DOMAIN acc.cached_globals
                  derived == global_closure(i, ctxv, index, n)
                  got == or_insert_with(acc.cached_globals, index, derived)
              IN IF ~hit /\ derived.panics THEN unwound(got.code)
                 ELSE [acc EXCEPT !.emitted = @ \o got.code,
                                  !.cached_globals = got.cache, !.ret = got.entry]
         [] op = "imported_func" ->
              LET got == or_insert_with(acc.cached_imported_functions, index,
                                        imported_func_closure(ctxv, index, n))
              IN [acc EXCEPT !.emitted = @ \o got.code,
                             !.cached_imported_functions = got.cache,
                             !.ret = <<got.entry.func_ptr, got.entry.ctx_ptr>>]

\* A fresh accessor over metadata i serving the calls of `log` alone, in
\* order; a call that unwinds ends the compilation.
RECURSIVE ServeAll(_, _, _)
ServeAll(i, ctxv, log) ==
    IF log = <<>> THEN FreshAccessor
    ELSE LET acc == ServeAll(i, ctxv, SubSeq(log, 1, Len(log) - 1))
             call == log[Len(log)]
         IN IF acc.panicked THEN acc ELSE Serve(i, ctxv, acc, call[1], call[2])

\* Memory accesses interleaved with growth events, over every layout of
\* NumEntities memories.
MemInfos == {ModuleInfo(m, DefaultTables, DefaultGlobals) : m \in Layouts(MemoryType)}
InitMem == InitWith(MemInfos)
NextMem ==
    \/ declare
    \/ ctx
    \/ \E index \in MemoryIndices(info) : memory(index)
    \/ \E index \in 0..(NumEntities - 1) : Grow(0, index) \/ Grow(3, index)
SpecMem == InitMem /\ [][NextMem]_vars

\* Table accesses interleaved with growth events.
TableInfos == {ModuleInfo(DefaultMemories, t, DefaultGlobals) : t \in Layouts({"Anyfunc"})}
InitTable == InitWith(TableInfos)
NextTable ==
    \/ declare
    \/ ctx
    \/ \E index \in TableIndices(info) : table(index)
    \/ \E index \in 0..(NumEntities - 1) : Grow(1, index) \/ Grow(4, index)
SpecTable == InitTable /\ [][NextTable]_vars

\* Global accesses over every layout of NumEntities globals.
GlobalInfos == {ModuleInfo(DefaultMemories, DefaultTables, g) : g \in Layouts(GlobalDesc)}
InitGlobal == InitWith(GlobalInfos)
NextGlobal ==
    \/ declare
    \/ ctx
    \/ \E index \in GlobalIndices(info) : global_cache(index)
SpecGlobal == InitGlobal /\ [][NextGlobal]_vars

\* The whole accessor, over three modules: every entity local, one imported
\* and one local entity of each kind, every entity imported.
MemoryFixtures ==
    <<[imported |-> <<>>, local |-> <<"Dynamic", "Static">>],
      [imported |-> <<"Static">>, local |-> <<"Dynamic">>],
      [imported |-> <<"Dynamic", "SharedStatic">>, local |-> <<>>]>>
TableFixtures ==
    <<[imported |-> <<>>, local |-> <<"Anyfunc", "Anyfunc">>],
      [imported |-> <<"Anyfunc">>, local |-> <<"Anyfunc">>],
      [imported |-> <<"Anyfunc", "Anyfunc">>, local |-> <<>>]>>
GlobalFixtures ==
    <<[imported |-> <<>>,
       local |-> <<[mutable |-> TRUE, ty |-> "I32"], [mutable |-> FALSE, ty |-> "I64"]>>],
      [imported |-> <<[mutable |-> FALSE, ty |-> "I32"]>>,
       local |-> <<[mutable |-> TRUE, ty |-> "F64"]>>],
      [imported |-> <<[mutable |-> TRUE, ty |-> "F32"], [mutable |-> FALSE, ty |-> "F32"]>>,
       local |-> <<>>]>>
Infos ==
    {ModuleInfo(MemoryFixtures[k], TableFixtures[k], GlobalFixtures[k]) :
        k \in DOMAIN MemoryFixtures}
Init == InitWith(Infos)
Next ==
    \/ declare
    \/ ctx
    \/ \E index \in MemoryIndices(info) : memory(index)
    \/ \E index \in TableIndices(info) : table(index)
    \/ \E index \in SigIndices : dynamic_sigindex(index)
    \/ \E index \in GlobalIndices(info) : global_cache(index)
    \/ \E index \in ImportedFuncIndices : imported_func(index)
    \/ build_trap
    \/ basic
Spec == Init /\ [][Next]_vars

\* Two functions of one unit compiled in turns, each through its own
\* accessor, over the module with one imported and one local entity of each
\* kind.
InitTwo == InitWith({ModuleInfo(MemoryFixtures[2], TableFixtures[2], GlobalFixtures[2])})
NextTwo ==
    \/ declare
    \/ ctx
    \/ switch_function
    \/ \E index \in MemoryIndices(info) : memory(index)
    \/ \E index \in TableIndices(info) : table(index)
    \/ \E index \in SigIndices : dynamic_sigindex(index)
    \/ \E index \in GlobalIndices(info) : global_cache(index)
    \/ \E index \in ImportedFuncIndices : imported_func(index)
SpecTwo == InitTwo /\ [][NextTwo]_vars

\* One function whose driver moves the builder between the blocks of a
\* conditional while it calls the accessor.
NextBlocks ==
    \/ declare
    \/ ctx
    \/ \E block \in Blocks : position_at_end(block)
    \/ \E index \in MemoryIndices(info) : memory(index)
    \/ \E index \in TableIndices(info) : table(index)
    \/ \E index \in SigIndices : dynamic_sigindex(index)
    \/ \E index \in GlobalIndices(info) : global_cache(index)
    \/ \E index \in ImportedFuncIndices : imported_func(index)
SpecBlocks == InitTwo /\ [][NextBlocks]_vars

\* A driver that breaks the preconditions: declare may be called a second
\* time, and every accessor may be asked for the index one past the last
\* entity of its kind (NumEntities, for every kind).
NextMisuse ==
    \/ declare
    \/ redeclare
    \/ ctx
    \/ \E index \in 0..NumEntities : memory(index)
    \/ \E index \in 0..NumEntities : table(index)
    \/ \E index \in 0..NumEntities : dynamic_sigindex(index)
    \/ \E index \in 0..NumEntities : global_cache(index)
    \/ \E index \in 0..NumEntities : imported_func(index)
SpecMisuse == Init /\ [][NextMisuse]_vars

-----------------------------------------------------------------------------
(* Properties of memory() *)

\* The declared type and the runtime descriptor of the memory a unified index
\* names, read off the metadata.
DeclaredMemoryType(index) ==
    IF index < Len(info.imported_memories)
    THEN info.imported_memories[index + 1]
    ELSE info.memories[index - Len(info.imported_memories) + 1]

MemoryDescriptor(index) ==
    IF index < Len(info.imported_memories)
    THEN <<3, index>>
    ELSE <<0, index - Len(info.imported_memories)>>

\* Loads in the emitted code that read field `n` of descriptor d at run time.
LoadsOf(d, n) ==
    {k \in 1..Len(emitted) :
        /\ emitted[k].op = "load"
        /\ ValOf(emitted[k].arg, val) = <<"desc_field", d[1], d[2], n>>}

\* A growth event hit descriptor d after instruction `id` was emitted.
GrownSince(d, id) == rt[d].grown_at >= id

\* C1: for a relocatable (Dynamic) memory, local or imported, every
\* memory(i) call, first or later, ends with a fresh load of the base and a
\* fresh load of the bound through the cached field pointers, so the returned
\* operands carry the descriptor's current base and bound, also after growth.
C1_DynamicReloadsEveryCall ==
    (last.op = "memory" /\ DeclaredMemoryType(last.index) = "Dynamic") =>
        LET d == MemoryDescriptor(last.index)
            e == cached_memories[last.index]
            n == Len(emitted)
        IN /\ e.kind = "Dynamic"
           /\ last.ret = <<n - 1, n>>
           /\ n - 1 > last.from
           /\ emitted[n - 1] = build_load(e.ptr_to_base_ptr, "base")
           /\ emitted[n] = build_load(e.ptr_to_bounds, "bounds")
           /\ val[e.ptr_to_base_ptr] = <<"desc_field", d[1], d[2], 0>>
           /\ val[e.ptr_to_bounds] = <<"desc_field", d[1], d[2], 1>>
           /\ val[last.ret[1]] = <<"base", d[1], d[2], rt[d].base>>
           /\ val[last.ret[2]] = <<"bounds", d[1], d[2], rt[d].bounds>>

\* A later call on a Dynamic memory whose base moved after the first access:
\* an earlier load of the same base field holds another base.
C1_Witness ==
    /\ last.op = "memory"
    /\ last.hit
    /\ DeclaredMemoryType(last.index) = "Dynamic"
    /\ LET d == MemoryDescriptor(last.index)
       IN /\ GrownSince(d, cached_memories[last.index].ptr_to_bounds)
          /\ \E k \in LoadsOf(d, 0) :
                k <= last.from /\ val[k][4] # val[last.ret[1]][4]
          /\ val[last.ret[1]][4] = rt[d].base

\* C2: for a fixed (Static) memory, base and bound are loaded exactly once,
\* at the first memory(i) call; a later call emits nothing and returns the
\* operands produced at the first call, also after a growth event.
C2_StaticLoadedOnce ==
    (last.op = "memory" /\ DeclaredMemoryType(last.index) = "Static") =>
        LET d == MemoryDescriptor(last.index)
            e == cached_memories[last.index]
        IN /\ e.kind = "Static"
           /\ last.ret = <<e.base_ptr, e.bounds>>
           /\ Cardinality(LoadsOf(d, 0)) = 1
           /\ Cardinality(LoadsOf(d, 1)) = 1
           /\ LoadsOf(d, 0) = {e.base_ptr}
           /\ LoadsOf(d, 1) = {e.bounds}
           /\ last.hit => /\ Len(emitted) = last.from
                          /\ e.base_ptr <= last.from
                          /\ e.bounds <= last.from
           /\ ~last.hit => /\ e.base_ptr > last.from
                           /\ e.bounds > last.from

\* A later call on a Static memory after a growth event on its descriptor.
C2_Witness ==
    /\ last.op = "memory"
    /\ last.hit
    /\ DeclaredMemoryType(last.index) = "Static"
    /\ cached_memories[last.index].kind = "Static"
    /\ GrownSince(MemoryDescriptor(last.index), cached_memories[last.index].bounds)
    /\ Len(emitted) = last.from

\* C3: for a fixed-discipline memory the bound is captured at the first
\* access and never refreshed: when a growth event hits the descriptor
\* between two memory(i) calls, the bound returned by the second call is the
\* one captured at first access and differs from the current bound.
C3_StaticBoundStale ==
    /\ (last.op = "memory" /\ DeclaredMemoryType(last.index) \in {"Static", "SharedStatic"})
          => cached_memories[last.index].kind = "Static"
    /\ (/\ last.op = "memory"
        /\ last.hit
        /\ DeclaredMemoryType(last.index) \in {"Static", "SharedStatic"}
        /\ cached_memories[last.index].kind = "Static"
        /\ GrownSince(MemoryDescriptor(last.index), cached_memories[last.index].bounds))
          => LET d == MemoryDescriptor(last.index)
                 e == cached_memories[last.index]
             IN /\ last.ret[2] = e.bounds
                /\ e.bounds <= last.from
                /\ val[last.ret[2]][1] = "bounds"
                /\ val[last.ret[2]][4] # rt[d].bounds

\* The stale read: a hit on a fixed memory returns a bound smaller than the
\* descriptor's current bound.
C3_Witness ==
    /\ last.op = "memory"
    /\ last.hit
    /\ DeclaredMemoryType(last.index) \in {"Static", "SharedStatic"}
    /\ cached_memories[last.index].kind = "Static"
    /\ val[last.ret[2]][4] < rt[MemoryDescriptor(last.index)].bounds

-----------------------------------------------------------------------------
(* Properties of the caches *)

AccessorOps == {"memory", "table", "dynamic_sigindex", "global_cache", "imported_func"}

\* Positions of the instructions emitted by the last step.
NewInstrs == (last.from + 1)..Len(emitted)

\* One cache across one step: old entries stay as they are, and the only key
\* that may appear is the index of a call of this cache's accessor that returned.
CacheStep(cache, cache2, op) ==
    /\ \A k \in DOMAIN cache : k \in DOMAIN cache2 /\ cache2[k] = cache[k]
    /\ DOMAIN cache2 =
          DOMAIN cache \cup (IF last'.op = op /\ pc' = "ctx" THEN {last'.index} ELSE {})
    /\ (last'.op = op /\ last'.hit) => cache2 = cache

\* C4: in each of the five caches an entry is inserted at most once, at the
\* first call that returns for its index, and is never removed, replaced or
\* modified; the keys are exactly the indices queried so far (every accessor
\* starts from empty caches, and each step adds at most the queried index).
C4_InsertedOnceNeverChanged ==
    [][/\ (pc = "declared" /\ pc' = "ctx") =>
             /\ DOMAIN cached_memories' = {}
             /\ DOMAIN cached_tables' = {}
             /\ DOMAIN cached_sigindices' = {}
             /\ DOMAIN cached_globals' = {}
             /\ DOMAIN cached_imported_functions' = {}
       /\ pc = "ctx" =>
             /\ CacheStep(cached_memories, cached_memories', "memory")
             /\ CacheStep(cached_tables, cached_tables', "table")
             /\ CacheStep(cached_sigindices, cached_sigindices', "dynamic_sigindex")
             /\ CacheStep(cached_globals, cached_globals', "global_cache")
             /\ CacheStep(cached_imported_functions, cached_imported_functions',
                          "imported_func")]_vars

\* A repeated query on a cache that holds two entries.
C4_Witness ==
    /\ pc = "ctx"
    /\ last.op = "imported_func"
    /\ last.hit
    /\ Cardinality(DOMAIN cached_imported_functions) = 2

\* C5: a second call of any accessor with the same index does not re-derive
\* the access path (no address computation, no array-pointer or
\* descriptor-pointer load) and returns operands that reference the cached
\* field pointers or cached values created by the first call.
C5_SecondCallReusesCache ==
    (last.op \in AccessorOps /\ last.hit) =>
        /\ \A k \in NewInstrs :
              /\ emitted[k].op = "load"
              /\ emitted[k].arg \in 1..last.from
              /\ val[emitted[k].arg][1] = "desc_field"
        /\ last.op = "memory" =>
              LET e == cached_memories[last.index] IN
              IF e.kind = "Dynamic"
              THEN /\ e.ptr_to_base_ptr <= last.from
                   /\ e.ptr_to_bounds <= last.from
                   /\ Len(emitted) = last.from + 2
                   /\ <<emitted[last.ret[1]].arg, emitted[last.ret[2]].arg>>
                         = <<e.ptr_to_base_ptr, e.ptr_to_bounds>>
              ELSE /\ Len(emitted) = last.from
                   /\ last.ret = <<e.base_ptr, e.bounds>>
                   /\ e.base_ptr <= last.from /\ e.bounds <= last.from
        /\ last.op = "table" =>
              LET e == cached_tables[last.index] IN
              /\ e.ptr_to_base_ptr <= last.from
              /\ e.ptr_to_bounds <= last.from
              /\ Len(emitted) = last.from + 2
              /\ <<emitted[last.ret[1]].arg, emitted[last.ret[2]].arg>>
                    = <<e.ptr_to_base_ptr, e.ptr_to_bounds>>
        /\ last.op = "dynamic_sigindex" =>
              /\ Len(emitted) = last.from
              /\ last.ret = <<cached_sigindices[last.index]>>
              /\ last.ret[1] <= last.from
        /\ last.op = "global_cache" =>
              /\ Len(emitted) = last.from
              /\ last.ret = cached_globals[last.index]
              /\ (IF last.ret.kind = "Mut" THEN last.ret.ptr_to_value
                  ELSE last.ret.value) <= last.from
        /\ last.op = "imported_func" =>
              LET e == cached_imported_functions[last.index] IN
              /\ Len(emitted) = last.from
              /\ last.ret = <<e.func_ptr, e.ctx_ptr>>
              /\ e.func_ptr <= last.from /\ e.ctx_ptr <= last.from

\* A second call on a global whose first call cached its entry.
C5_Witness ==
    /\ last.op = "global_cache"
    /\ last.hit
    /\ pc = "ctx"
    /\ last.ret = cached_globals[last.index]

-----------------------------------------------------------------------------
(* Properties of global_cache() *)

DeclaredGlobal(index) ==
    IF index < Len(info.imported_globals)
    THEN info.imported_globals[index + 1]
    ELSE info.globals[index - Len(info.imported_globals) + 1]

GlobalCell(index) ==
    IF index < Len(info.imported_globals)
    THEN <<"cell", 5, index, 0>>
    ELSE <<"cell", 2, index - Len(info.imported_globals), 0>>

\* C6: for every global, local or imported, of every value type: if it is
\* immutable, global_cache(i) completes and returns a value loaded once (the
\* Const variant); if it is mutable, it returns a storage pointer (the Mut
\* variant) and emits no load of the value.
C6_VariantFollowsMutability ==
    last.op = "global_cache" =>
        /\ pc = "ctx"
        /\ IF DeclaredGlobal(last.index).mutable
           THEN /\ last.ret.kind = "Mut"
                /\ \A k \in 1..Len(emitted) :
                      emitted[k].op = "load" => val[emitted[k].arg][1] # "cell"
           ELSE /\ last.ret.kind = "Const"
                /\ emitted[last.ret.value].op = "load"
                /\ val[emitted[last.ret.value].arg] = GlobalCell(last.index)
                /\ Cardinality({k \in 1..Len(emitted) :
                                   /\ emitted[k].op = "load"
                                   /\ val[emitted[k].arg] = GlobalCell(last.index)}) = 1

\* C7: for every mutable global, local or imported, the storage pointer that
\* global_cache(i) returns points to the global's cell and its pointee type
\* is the declared value type.
C7_MutPointeeMatchesType ==
    (last.op = "global_cache" /\ DeclaredGlobal(last.index).mutable) =>
        /\ pc = "ctx"
        /\ last.ret.kind = "Mut"
        /\ emitted[last.ret.ptr_to_value].op = "int_to_ptr"
        /\ val[last.ret.ptr_to_value] = GlobalCell(last.index)
        /\ emitted[last.ret.ptr_to_value].ty =
              (CASE DeclaredGlobal(last.index).ty = "I32" -> "i32_ptr"
                 [] DeclaredGlobal(last.index).ty = "I64" -> "i64_ptr"
                 [] DeclaredGlobal(last.index).ty = "F32" -> "f32_ptr"
                 [] DeclaredGlobal(last.index).ty = "F64" -> "f64_ptr")

\* An imported mutable F32 global served with a pointer to f32.
C7_Witness ==
    /\ last.op = "global_cache"
    /\ pc = "ctx"
    /\ last.index < Len(info.imported_globals)
    /\ DeclaredGlobal(last.index) = [mutable |-> TRUE, ty |-> "F32"]
    /\ emitted[last.ret.ptr_to_value].ty = "f32_ptr"

-----------------------------------------------------------------------------
(* Properties of declare *)

IsRuntimeEntry(name) == name[1] = "vm" /\ name[2] = "memory"
IsControl(name) == name \in {<<"llvm", "expect", "i1">>, <<"llvm", "trap">>}
IsNumeric(name) == name[1] = "llvm" /\ ~IsControl(name)

Registered(P(_)) == {k \in 1..Len(module_fns) : P(module_fns[k].name)}

\* The manifest of one declare on an empty unit, with `numeric` numeric
\* primitives.
Manifest(numeric) ==
    pc # "start" =>
        /\ Cardinality(Registered(IsRuntimeEntry)) = 12
        /\ Cardinality(Registered(IsControl)) = 2
        /\ Cardinality(Registered(IsNumeric)) = numeric
        /\ Len(module_fns) = 12 + 2 + numeric
        /\ Cardinality({module_fns[k].name : k \in 1..Len(module_fns)}) = Len(module_fns)

\* C8 as stated: one declare on an empty unit registers exactly 12 runtime
\* memory entry points, 2 control symbols and 22 numeric primitives, and
\* nothing else.
C8_Manifest22 == Manifest(22)

\* C8 as it holds: 12 runtime memory entry points, 2 control symbols and 24
\* numeric primitives (3 integer and 9 float operations, two widths each),
\* pairwise distinct, and nothing else.
C8_Manifest24 == Manifest(24)

C8_Witness ==
    /\ pc = "declared"
    /\ Len(module_fns) = 38
    /\ module_fns[26].name = <<"llvm", "trap">>

-----------------------------------------------------------------------------
(* Properties of the context fields *)

ExpectedField(op, index) ==
    CASE op = "memory" -> IF index < Len(info.imported_memories) THEN 3 ELSE 0
      [] op = "table" -> IF index < Len(info.imported_tables) THEN 4 ELSE 1
      [] op = "global_cache" -> IF index < Len(info.imported_globals) THEN 5 ELSE 2
      [] op = "imported_func" -> 6
      [] op = "dynamic_sigindex" -> 7

\* C9: each accessor reads only the context field of its entity kind and
\* locality (struct indices 0/3 memory, 1/4 table, 2/5 global, 6 imported
\* function, 7 signature ids): a first call computes the address of exactly
\* that field and everything it emits derives from it; a later call touches
\* no context field.
C9_FieldPerKindAndLocality ==
    last.op \in AccessorOps =>
        LET ctx_geps == {k \in NewInstrs :
                            emitted[k].op = "struct_gep" /\ emitted[k].arg = ctx_ptr_value}
        IN IF last.hit
           THEN ctx_geps = {}
           ELSE /\ ctx_geps = {last.from + 1}
                /\ emitted[last.from + 1].n = ExpectedField(last.op, last.index)
                /\ \A k \in NewInstrs : val[k][2] = ExpectedField(last.op, last.index)

\* Index 0 of an import-only memory space resolved to field 3 (the fourth).
C9_Witness ==
    /\ last.op = "memory"
    /\ ~last.hit
    /\ last.index = 0
    /\ Len(info.memories) = 0
    /\ emitted[last.from + 1] = build_struct_gep(0, 3, "memory_array_ptr_ptr")

-----------------------------------------------------------------------------
(* Properties of table() *)

TableDescriptor(index) ==
    IF index < Len(info.imported_tables)
    THEN <<4, index>>
    ELSE <<1, index - Len(info.imported_tables)>>

\* Address computations in the emitted code that yield the address of field
\* n of descriptor d.
FieldPointersOf(d, n) ==
    {k \in 1..Len(emitted) :
        emitted[k].op = "struct_gep" /\ val[k] = <<"desc_field", d[1], d[2], n>>}

\* C10: table(i) always caches the two field pointers, materialized once per
\* index, never loaded values; every call, first or later, emits one fresh
\* load of the base and one of the bound through them.
C10_TableAlwaysReloads ==
    /\ pc = "ctx" =>
          \A i \in DOMAIN cached_tables :
             LET d == TableDescriptor(i)
                 e == cached_tables[i]
             IN /\ FieldPointersOf(d, 0) = {e.ptr_to_base_ptr}
                /\ FieldPointersOf(d, 1) = {e.ptr_to_bounds}
    /\ last.op = "table" =>
          LET d == TableDescriptor(last.index)
              e == cached_tables[last.index]
              n == Len(emitted)
          IN /\ last.ret = <<n - 1, n>>
             /\ n - 1 > last.from
             /\ emitted[n - 1] = build_load(e.ptr_to_base_ptr, "base_ptr")
             /\ emitted[n] = build_load(e.ptr_to_bounds, "bounds")
             /\ LoadsOf(d, 0) \cap NewInstrs = {n - 1}
             /\ LoadsOf(d, 1) \cap NewInstrs = {n}
             /\ val[n - 1] = <<"base", d[1], d[2], rt[d].base>>
             /\ val[n] = <<"bounds", d[1], d[2], rt[d].bounds>>

\* A later table(i) call after the table grew and moved.
C10_Witness ==
    /\ last.op = "table"
    /\ last.hit
    /\ LET d == TableDescriptor(last.index)
       IN /\ GrownSince(d, cached_tables[last.index].ptr_to_bounds)
          /\ rt[d].base > 0
          /\ val[last.ret[1]][4] = rt[d].base

-----------------------------------------------------------------------------
(* One local relocatable and one imported fixed memory *)

\* How many times the accessor was asked for `index` through `op`.
Times(op, index) == Cardinality({k \in DOMAIN calls : calls[k] = <<op, index>>})

\* Instructions whose run-time value is of kind `kind`, reached through
\* context field `field`.
Yielding(kind, field) ==
    {k \in 1..Len(emitted) : val[k][1] = kind /\ val[k][2] = field}

\* The module of the scenario: unified index 0 is the imported Static memory,
\* unified index 1 the local Dynamic memory.
OneLocalDynamicOneImportedStatic ==
    info.imported_memories = <<"Static">> /\ info.memories = <<"Dynamic">>

\* C11: with one local relocatable memory (index 1) and one imported fixed
\* memory (index 0), after memory(1) twice and memory(0) once in any order
\* the emitted code holds exactly one derivation of the local memory's two
\* field pointers (one array-pointer load and one descriptor-pointer load
\* through struct field 0), one base load and one bound load of the imported
\* memory, a base and a bound load per access of the local one, 18
\* instructions in all beside the driver's trap calls; no instruction
\* emitted while serving the imported memory goes through the local memory
\* array field.
C11_LocalDynamicImportedStatic ==
    /\ (OneLocalDynamicOneImportedStatic /\ Len(calls) = 3
           /\ Times("memory", 1) = 2 /\ Times("memory", 0) = 1) =>
          /\ Cardinality(Yielding("ctx_field", 0)) = 1
          /\ Cardinality(Yielding("array", 0)) = 1
          /\ Cardinality(Yielding("desc", 0)) = 1
          /\ Cardinality(FieldPointersOf(<<0, 0>>, 0)) = 1
          /\ Cardinality(FieldPointersOf(<<0, 0>>, 1)) = 1
          /\ Cardinality(LoadsOf(<<0, 0>>, 0)) = 2
          /\ Cardinality(LoadsOf(<<0, 0>>, 1)) = 2
          /\ Cardinality(LoadsOf(<<3, 0>>, 0)) = 1
          /\ Cardinality(LoadsOf(<<3, 0>>, 1)) = 1
          /\ Cardinality({k \in 1..Len(emitted) : emitted[k].op # "call"}) = 18
    /\ (OneLocalDynamicOneImportedStatic /\ last.op = "memory" /\ last.index = 0) =>
          \A k \in NewInstrs :
             /\ val[k][2] # 0
             /\ ~(emitted[k].op = "struct_gep" /\ emitted[k].arg = ctx_ptr_value
                     /\ emitted[k].n = 0)

\* The three accesses were made, the imported memory served between the two
\* accesses of the local one.
C11_Witness ==
    /\ OneLocalDynamicOneImportedStatic
    /\ calls = <<<<"memory", 1>>, <<"memory", 0>>, <<"memory", 1>>>>
    /\ last.hit
    /\ Len(emitted) = 18

-----------------------------------------------------------------------------
(* Properties of imported_func() and dynamic_sigindex() *)

\* Loads in the emitted code whose run-time value is <<kind, field, index, 0>>.
LoadsYielding(kind, field, index) ==
    {k \in 1..Len(emitted) :
        emitted[k].op = "load" /\ val[k] = <<kind, field, index, 0>>}

\* C12: imported_func(i) resolves through struct field 6 (spec field 7) only.
\* The first call loads the descriptor's code pointer and callee context
\* pointer, once each, and caches the pair; a later call emits nothing and
\* returns the same pair.  The second operand is the value loaded from the
\* descriptor, not the accessor's own context-pointer parameter.
C12_ImportedFuncThroughField6 ==
    /\ pc = "ctx" =>
          \A i \in DOMAIN cached_imported_functions :
             LET e == cached_imported_functions[i]
             IN /\ LoadsYielding("func_ptr", 6, i) = {e.func_ptr}
                /\ LoadsYielding("callee_ctx", 6, i) = {e.ctx_ptr}
                /\ e.ctx_ptr # ctx_ptr_value
    /\ last.op = "imported_func" =>
          LET e == cached_imported_functions[last.index]
          IN /\ last.ret = <<e.func_ptr, e.ctx_ptr>>
             /\ \A k \in NewInstrs : val[k][2] = 6
             /\ last.hit => (NewInstrs = {} /\ e.func_ptr <= last.from
                                /\ e.ctx_ptr <= last.from)
             /\ ~last.hit => (\E k \in NewInstrs :
                                emitted[k] = build_struct_gep(ctx_ptr_value, 6,
                                                "imported_func_array_ptr_ptr"))

\* A later imported_func(i) call, made after another index was resolved.
C12_Witness ==
    /\ last.op = "imported_func"
    /\ last.hit
    /\ Cardinality(DOMAIN cached_imported_functions) = 2
    /\ val[last.ret[2]] = <<"callee_ctx", 6, last.index, 0>>

\* C13: dynamic_sigindex(i) loads through struct field 7 (spec field 8) once
\* per distinct index: the number of identifier loads in the emitted code is
\* the number of distinct indices queried, and a repeated call emits nothing
\* and returns the cached identifier.
C13_SigindexLoadedOncePerIndex ==
    /\ pc = "ctx" =>
          /\ Cardinality({k \in 1..Len(emitted) :
                             emitted[k].op = "load" /\ emitted[k].name = "sigindex"})
                = Cardinality({i \in SigIndices : Times("dynamic_sigindex", i) > 0})
          /\ \A i \in SigIndices :
                Times("dynamic_sigindex", i) > 0 =>
                   /\ i \in DOMAIN cached_sigindices
                   /\ LoadsYielding("sigid", 7, i) = {cached_sigindices[i]}
    /\ last.op = "dynamic_sigindex" =>
          /\ last.ret = <<cached_sigindices[last.index]>>
          /\ last.hit => (NewInstrs = {} /\ last.ret[1] <= last.from)

\* Two distinct indices were queried and one of them again.
C13_Witness ==
    /\ last.op = "dynamic_sigindex"
    /\ last.hit
    /\ Len(calls) = 3
    /\ Cardinality(DOMAIN cached_sigindices) = 2
    /\ Cardinality(LoadsYielding("sigid", 7, 0) \cup LoadsYielding("sigid", 7, 1)) = 2

-----------------------------------------------------------------------------
(* Runtime memory entry points *)

\* Handle field of each <<operation, discipline, locality>>.
MemoryEntryPoints ==
    {<<"memory_grow_dynamic_local",  "grow", "dynamic", "local">>,
     <<"memory_grow_static_local",   "grow", "static",  "local">>,
     <<"memory_grow_shared_local",   "grow", "shared",  "local">>,
     <<"memory_grow_dynamic_import", "grow", "dynamic", "import">>,
     <<"memory_grow_static_import",  "grow", "static",  "import">>,
     <<"memory_grow_shared_import",  "grow", "shared",  "import">>,
     <<"memory_size_dynamic_local",  "size", "dynamic", "local">>,
     <<"memory_size_static_local",   "size", "static",  "local">>,
     <<"memory_size_shared_local",   "size", "shared",  "local">>,
     <<"memory_size_dynamic_import", "size", "dynamic", "import">>,
     <<"memory_size_static_import",  "size", "static",  "import">>,
     <<"memory_size_shared_import",  "size", "shared",  "import">>}

EntryPointNames ==
    {<<"vm", "memory", o, d, l>> :
        o \in {"grow", "size"}, d \in {"dynamic", "static", "shared"},
        l \in {"local", "import"}}

\* C16: the runtime memory entry points registered by declare are exactly
\* the 12 pairwise distinct names vm.memory.<op>.<discipline>.<locality> of
\* the cross product {grow, size} x {dynamic, static, shared} x {local,
\* import}; each handle field is bound to the symbol of its own combination;
\* grow takes (context pointer, i32, i32), size takes (context pointer, i32),
\* both return i32.
C16_TwelveMemoryEntryPoints ==
    pc # "start" =>
        /\ {<<r[2], r[3], r[4]>> : r \in MemoryEntryPoints}
              = {"grow", "size"} \X {"dynamic", "static", "shared"} \X {"local", "import"}
        /\ {module_fns[k].name : k \in Registered(IsRuntimeEntry)} = EntryPointNames
        /\ Cardinality(Registered(IsRuntimeEntry)) = 12
        /\ \A r \in MemoryEntryPoints :
              /\ r[1] \in DOMAIN intrinsics
              /\ module_fns[intrinsics[r[1]]].name = <<"vm", "memory", r[2], r[3], r[4]>>
              /\ module_fns[intrinsics[r[1]]].ty =
                    [ret |-> "i32",
                     params |-> IF r[2] = "grow" THEN <<"ctx_ptr", "i32", "i32">>
                                ELSE <<"ctx_ptr", "i32">>]

\* The handle table exists and the shared-discipline grow entry of imported
\* memories is in the unit.
C16_Witness ==
    /\ pc = "declared"
    /\ \E k \in 1..Len(module_fns) :
          /\ module_fns[k].name = <<"vm", "memory", "grow", "shared", "import">>
          /\ intrinsics["memory_grow_shared_import"] = k

-----------------------------------------------------------------------------
(* The accessor only reads *)

\* Address computations, pointer casts and loads.
ReadOnlyOps == {"struct_gep", "gep", "load", "ptr_to_int", "int_to_ptr"}

\* C17: whatever one of the five accessors emits is an address computation,
\* a pointer cast or a load, never a store, an allocation or a release, also
\* when the entity is a mutable global.
C17_AccessorOnlyReads ==
    last.op \in AccessorOps =>
        \A k \in NewInstrs : emitted[k].op \in ReadOnlyOps

\* A first global_cache call on a mutable global, which emitted its address
\* computation.
C17_Witness ==
    /\ last.op = "global_cache"
    /\ ~last.hit
    /\ DeclaredGlobal(last.index).mutable
    /\ Cardinality(NewInstrs) = 6
    /\ \E k \in NewInstrs : emitted[k].op = "int_to_ptr"

-----------------------------------------------------------------------------
(* Broken preconditions *)

\* An index past the entities of its kind: past the unified index space of
\* the module's memories, tables or globals, or past the signatures /
\* imported functions of the module.
OutOfRange(op, index) ==
    CASE op = "memory" -> index \notin MemoryIndices(info)
      [] op = "table" -> index \notin TableIndices(info)
      [] op = "global_cache" -> index \notin GlobalIndices(info)
      [] op = "dynamic_sigindex" -> index \notin SigIndices
      [] op = "imported_func" -> index \notin ImportedFuncIndices
      [] OTHER -> FALSE

\* C14: a call of any of the five accessors with an out-of-range index
\* aborts compilation and returns no operands.
C14_OutOfRangeAborts ==
    (last.op \in AccessorOps /\ OutOfRange(last.op, last.index)) =>
        (pc = "panicked" /\ last.ret = <<>>)

\* C15: a second declare on a unit that already holds the symbols aborts
\* compilation and returns no second handle table.
C15_SecondDeclareAborts ==
    (last.op = "declare" /\ Len(module_fns) > Len(DeclaredFunctions)) =>
        (pc = "panicked" /\ \A f \in DOMAIN intrinsics :
                               intrinsics[f] <= Len(DeclaredFunctions))

-----------------------------------------------------------------------------
(* SharedStatic against Static *)

\* The module that differs from i only in that every SharedStatic memory is
\* declared Static.
AsStatic(i) ==
    LET static(types) ==
            [k \in DOMAIN types |->
                IF types[k] = "SharedStatic" THEN "Static" ELSE types[k]]
    IN [i EXCEPT !.memories = static(@), !.imported_memories = static(@)]

\* C19: a SharedStatic memory is served as a Static one: after every sequence
\* of memory calls the cache entries, the emitted code and the operands
\* returned are those the same calls produce over the module in which the
\* memory is declared Static, and the entry is of the loaded-value variant.
C19_SharedStaticAsStatic ==
    /\ pc = "ctx" =>
          LET twin == ServeAll(AsStatic(info), ctx_ptr_value, calls)
          IN /\ cached_memories = twin.cached_memories
             /\ emitted = twin.emitted
             /\ last.op = "memory" => last.ret = twin.ret
    /\ pc = "ctx" =>
          \A i \in DOMAIN cached_memories :
             DeclaredMemoryType(i) = "SharedStatic" => cached_memories[i].kind = "Static"

\* A later call on a SharedStatic memory, after a first call and a growth
\* event.
C19_Witness ==
    /\ last.op = "memory"
    /\ last.hit
    /\ DeclaredMemoryType(last.index) = "SharedStatic"
    /\ AsStatic(info) # info
    /\ GrownSince(MemoryDescriptor(last.index), 1)
    /\ NewInstrs = {}

-----------------------------------------------------------------------------
(* Two accessors *)

\* The emitted code and the five caches of an accessor state.
CompiledBy(a) ==
    <<a.emitted, a.cached_memories, a.cached_tables, a.cached_sigindices,
      a.cached_globals, a.cached_imported_functions>>

\* C18: every accessor built by ctx() starts with five empty caches, and
\* under any interleaving of two accessors over the same metadata the cache
\* contents and the emitted code of each are those its own calls produce on
\* an accessor running alone; a hit never comes from an entry the other
\* accessor cached.
C18_AccessorsIsolated ==
    /\ last.op = "ctx" =>
          caches = <<EmptyCache, EmptyCache, EmptyCache, EmptyCache, EmptyCache>>
    /\ pc = "ctx" =>
          <<emitted>> \o caches = CompiledBy(ServeAll(info, ctx_ptr_value, calls))
    /\ other.pc = "ctx" =>
          CompiledBy(other) = CompiledBy(ServeAll(info, other.ctx_ptr_value, other.calls))
    /\ (last.op \in AccessorOps /\ last.hit) => Times(last.op, last.index) >= 2

\* Both accessors are built and have served calls; the current one has just
\* missed on a memory that the other one holds in its cache.
C18_Witness ==
    /\ pc = "ctx"
    /\ other.pc = "ctx"
    /\ Len(other.calls) = 2
    /\ last.op = "memory"
    /\ ~last.hit
    /\ last.index \in DOMAIN other.cached_memories
    /\ other.cached_memories[last.index] = cached_memories[last.index]

-----------------------------------------------------------------------------
(* Cache hits across basic blocks *)

\* The values the last accessor call handed to the driver.
ReturnedOperands ==
    IF last.op = "global_cache"
    THEN IF last.ret = <<>> THEN {}
         ELSE IF last.ret.kind = "Mut" THEN {last.ret.ptr_to_value}
         ELSE {last.ret.value}
    ELSE {last.ret[j] : j \in DOMAIN last.ret}

\* C20: every operand returned on a cache hit is defined by an instruction
\* of a block that dominates the block the builder is positioned in, also
\* when the driver moved the builder to another block since the first access.
C20_HitOperandsDominate ==
    (last.op \in AccessorOps /\ last.hit) =>
        \A id \in ReturnedOperands : BlockOf(id) \in Dominators(CurrentBlock)

-----------------------------------------------------------------------------
(* Sub-index and unified index *)

\* The number of imported entities of the kind an accessor serves, and the
\* position of unified index `index` within its own space (imports first).
ImportsOf(op) ==
    CASE op = "memory" -> Len(info.imported_memories)
      [] op = "table" -> Len(info.imported_tables)
      [] op = "global_cache" -> Len(info.imported_globals)

SubIndex(op, index) ==
    IF index < ImportsOf(op) THEN index ELSE index - ImportsOf(op)

CacheOf(op) ==
    CASE op = "memory" -> cached_memories
      [] op = "table" -> cached_tables
      [] op = "global_cache" -> cached_globals

\* C21: for memory, table and global accesses the constant that indexes the
\* runtime array is the resolved sub-index (the local sub-index for a local
\* entity, the import sub-index for an imported one), while the cache key is
\* the unified index: a local and an imported entity of equal sub-index hold
\* two entries, with different operands.
C21_ArrayIndexedBySubIndex ==
    /\ (last.op \in {"memory", "table", "global_cache"} /\ ~last.hit) =>
          /\ {k \in NewInstrs : emitted[k].op = "gep"} = {last.from + 3}
          /\ emitted[last.from + 3].n = SubIndex(last.op, last.index)
          /\ val[last.from + 3] = <<"slot", ExpectedField(last.op, last.index),
                                    SubIndex(last.op, last.index), 0>>
    /\ (last.op \in {"memory", "table", "global_cache"} /\ pc = "ctx") =>
          /\ last.index \in DOMAIN CacheOf(last.op)
          /\ \A i, j \in DOMAIN CacheOf(last.op) :
                i # j => CacheOf(last.op)[i] # CacheOf(last.op)[j]

\* The local table of sub-index 0 (unified index 1) resolved after the
\* imported table of sub-index 0 (unified index 0).
C21_Witness ==
    /\ last.op = "table"
    /\ ~last.hit
    /\ last.index = 1
    /\ Len(info.imported_tables) = 1
    /\ 0 \in DOMAIN cached_tables
    /\ emitted[last.from + 3].n = 0
    /\ emitted[cached_tables[0].ptr_to_base_ptr - 2].n = 0

-----------------------------------------------------------------------------
(* Frame of the accessor operations *)

\* One cache across one step of the accessor: unless the step is a call of
\* this cache's accessor the cache is as before, and such a call leaves
\* every entry but the one of the queried key as it was and adds no other key.
FrameOf(cache, cache2, op) ==
    /\ last'.op # op => cache2 = cache
    /\ last'.op = op =>
          /\ \A k \in DOMAIN cache \ {last'.index} :
                k \in DOMAIN cache2 /\ cache2[k] = cache[k]
          /\ DOMAIN cache2 \subseteq DOMAIN cache \cup {last'.index}

\* C22: a call of the accessor of kind K with index i changes at most the
\* entry of key i in the cache of kind K; the other four caches, the other
\* entries of that cache, the context-pointer operand and the module
\* metadata stay as they are; build_trap and basic change no cache.
C22_AccessorFrame ==
    [][pc = "ctx" =>
          /\ FrameOf(cached_memories, cached_memories', "memory")
          /\ FrameOf(cached_tables, cached_tables', "table")
          /\ FrameOf(cached_sigindices, cached_sigindices', "dynamic_sigindex")
          /\ FrameOf(cached_globals, cached_globals', "global_cache")
          /\ FrameOf(cached_imported_functions, cached_imported_functions',
                     "imported_func")
          /\ ctx_ptr_value' = ctx_ptr_value
          /\ info' = info
          /\ last'.op \in {"build_trap", "basic"} => caches' = caches]_vars

\* A trap emitted after two calls that filled two different caches.
C22_Witness ==
    /\ last.op = "build_trap"
    /\ Cardinality({c \in {1, 2, 3, 4, 5} : caches[c] # EmptyCache}) = 2
    /\ steps = 3

-----------------------------------------------------------------------------
(* Determinism *)

IsPrefix(a, b) == Len(a) <= Len(b) /\ SubSeq(b, 1, Len(a)) = a

\* The restriction of a cache to the keys of another.
Within(cache, cache2) ==
    \A k \in DOMAIN cache : k \in DOMAIN cache2 /\ cache2[k] = cache[k]

-----------------------------------------------------------------------------
(* Properties of build_trap *)

\* Whether a call of the function behind a handle never returns: the trap
\* primitive raises the trap at run time, every other declared function
\* returns to its caller.
NoReturn(handle) == module_fns[handle].name = <<"llvm", "trap">>

\* Whether run-time execution of the straight-line code gets to instruction
\* k: no call before it is one that never returns.
Reached(k) ==
    \A j \in 1..(k - 1) : ~(emitted[j].op = "call" /\ NoReturn(emitted[j].arg))

\* C24: each build_trap call emits exactly one instruction, a call of the
\* declared trap entry point (llvm.trap, no parameter, no result) that
\* returns nothing to the driver, and no instruction that follows that call
\* in the emitted code is reached at run time.
C24_TrapCallThenUnreachable ==
    /\ last.op = "build_trap" =>
          /\ NewInstrs = {Len(emitted)}
          /\ emitted[Len(emitted)] = build_call(intrinsics["trap"], "trap")
          /\ module_fns[emitted[Len(emitted)].arg] =
                [name |-> <<"llvm", "trap">>, ty |-> [ret |-> "void", params |-> <<>>]]
          /\ val[Len(emitted)] = <<"void", 0, 0, 0>>
          /\ last.ret = <<>>
    /\ \A k \in 1..Len(emitted) :
          emitted[k].name = "trap" =>
             \A j \in (k + 1)..Len(emitted) : ~Reached(j)

\* A first access whose derivation was emitted after a trap call.
C24_Witness ==
    /\ last.op \in AccessorOps
    /\ NewInstrs # {}
    /\ \E k \in 1..last.from : emitted[k] = build_call(intrinsics["trap"], "trap")
    /\ \A j \in NewInstrs : ~Reached(j)

====
